---- MODULE Spec2Model ----
(***************************************************************************)
(* Model of company_dashboard_tracker.py: the watchlist collector, the     *)
(* per-company record extractor, the batch loop and main().                *)
(*                                                                         *)
(* The browser is the environment: what driver.get / find_element(s) /     *)
(* .text return or raise is chosen when the program asks for it, and the   *)
(* page handed back is logged in `fetched`.  Texts are TLA+ strings, so    *)
(* str.strip, str.lower and the `in` substring test are computed on them.  *)
(***************************************************************************)
EXTENDS Integers, Sequences, FiniteSets, TLC

VARIABLES
    config,          \* the four required environment variables (lines 33-36)
    WATCHLISTS,      \* the configured watchlists, in dict order (lines 39-42)
    pc,              \* position of the run
    driver,          \* main's `driver`: "None", "open" or "closed"
    quit_count,      \* number of driver.quit() calls
    fetched,         \* pages the driver was sent to, in order: <<[url, page]>>
    wl,              \* index of the next watchlist in get_all_watchlist_companies
    all_companies,   \* get_all_watchlist_companies: all_companies
    seen,            \* get_all_watchlist_companies: seen
    companies,       \* the company list handed to scrape_all_companies
    i,               \* scrape_all_companies: index of the next company
    data,            \* scrape_all_companies: data of the latest company
    all_data,        \* scrape_all_companies: all_data
    success_count,   \* scrape_all_companies: success_count
    published,       \* publisher invocations, in order
    exit_status,     \* status handed to sys.exit, "0" on completion; "running" before
    logged_in        \* what login_to_screener returned

vars == <<config, WATCHLISTS, pc, driver, quit_count, fetched, wl, all_companies,
          seen, companies, i, data, all_data, success_count, published, exit_status,
                   logged_in>>

---------------------------------------------------------------------------
(* Python values *)

\* None, and an optional string: <<>> is None, <<s>> is the string s.
None == <<>>
Some(s) == <<s>>

\* Truth value of an optional string (`if url`, `not v`): None and "" are false.
TruthyStr(v) == v # None /\ v[1] # ""

\* Truth value of `data` in `if data:` -- None and the empty dict are false.
Truthy(d) == d # None /\ DOMAIN d # {}

\* str.strip(): drop leading and trailing whitespace (the texts here hold no
\* whitespace but blanks).
RECURSIVE LStrip(_)
LStrip(s) ==
    IF Len(s) > 0 /\ SubSeq(s, 1, 1) = " " THEN LStrip(SubSeq(s, 2, Len(s))) ELSE s

RECURSIVE RStrip(_)
RStrip(s) ==
    IF Len(s) > 0 /\ SubSeq(s, Len(s), Len(s)) = " "
    THEN RStrip(SubSeq(s, 1, Len(s) - 1)) ELSE s

Strip(s) == RStrip(LStrip(s))

\* str.lower(), letter by letter.
LowerChar(c) ==
    CASE c = "A" -> "a" [] c = "B" -> "b" [] c = "C" -> "c" [] c = "D" -> "d"
      [] c = "E" -> "e" [] c = "F" -> "f" [] c = "G" -> "g" [] c = "H" -> "h"
      [] c = "I" -> "i" [] c = "J" -> "j" [] c = "K" -> "k" [] c = "L" -> "l"
      [] c = "M" -> "m" [] c = "N" -> "n" [] c = "O" -> "o" [] c = "P" -> "p"
      [] c = "Q" -> "q" [] c = "R" -> "r" [] c = "S" -> "s" [] c = "T" -> "t"
      [] c = "U" -> "u" [] c = "V" -> "v" [] c = "W" -> "w" [] c = "X" -> "x"
      [] c = "Y" -> "y" [] c = "Z" -> "z"
      [] OTHER -> c

RECURSIVE Lower(_)
Lower(s) ==
    IF Len(s) = 0 THEN s
    ELSE LowerChar(SubSeq(s, 1, 1)) \o Lower(SubSeq(s, 2, Len(s)))

\* `sub in s` on strings.
Contains(s, sub) ==
    \E k \in 1..(Len(s) - Len(sub) + 1) : SubSeq(s, k, k + Len(sub) - 1) = sub

\* DictSet, but an existing key keeps its first value.
DictSetKeepFirst(d, key, value) ==
    IF \E k \in 1..Len(d) : d[k].key = key
    THEN d
    ELSE Append(d, [key |-> key, value |-> value])

\* dict[key] = value on an insertion-ordered dict, kept as <<[key, value]>>:
\* a new key is appended, an existing key keeps its place and takes the value.
DictSet(d, key, value) ==
    IF \E k \in 1..Len(d) : d[k].key = key
    THEN [k \in 1..Len(d) |->
             IF d[k].key = key THEN [key |-> key, value |-> value] ELSE d[k]]
    ELSE Append(d, [key |-> key, value |-> value])

---------------------------------------------------------------------------
(* scrape_watchlist_companies, lines 84-118 *)

\* One iteration of the row loop (lines 99-111).  row.raises: find_element,
\* .text or get_attribute raised, and the bare except skips the row.
ScrapeWatchlistRow(acc, row) ==
    IF row.raises THEN acc
    ELSE LET company_name == Strip(row.text)
             company_url  == row.href
         IN  IF company_name # "" /\ TruthyStr(company_url)
             THEN Append(acc, [name |-> company_name, url |-> company_url[1]])
             ELSE acc

RECURSIVE ScrapeWatchlistRows(_, _)
ScrapeWatchlistRows(acc, rows) ==
    IF rows = <<>> THEN acc
    ELSE ScrapeWatchlistRows(ScrapeWatchlistRow(acc, Head(rows)), Tail(rows))

\* ScrapeWatchlistCompanies without the except clause of lines 116-118.
ScrapeWatchlistCompaniesNoCatch(watchlist_url, page) ==
    IF watchlist_url = "" THEN <<>>
    ELSE ScrapeWatchlistRows(<<>>, page.rows)

\* page.load: "ok", or the step that raised: "nav_error" (driver.get),
\* "timeout" (WebDriverWait), "parse_error" (find_elements).
ScrapeWatchlistCompanies(watchlist_url, page) ==
    IF watchlist_url = "" THEN <<>>
    ELSE IF page.load # "ok" THEN <<>>
    ELSE ScrapeWatchlistRows(<<>>, page.rows)

---------------------------------------------------------------------------
(* get_all_watchlist_companies, lines 120-135 *)

\* MergeCompany, but a later duplicate replaces the entry kept for its name.
MergeCompanyLastWins(acc, company) ==
    IF company.name \notin acc.seen
    THEN [all_companies |-> Append(acc.all_companies, company),
          seen          |-> acc.seen \cup {company.name}]
    ELSE [all_companies |-> [k \in 1..Len(acc.all_companies) |->
                               IF acc.all_companies[k].name = company.name
                               THEN company ELSE acc.all_companies[k]],
          seen          |-> acc.seen]

\* Lines 130-132 for one company; acc is [all_companies, seen].
MergeCompany(acc, company) ==
    IF company.name \notin acc.seen
    THEN [all_companies |-> Append(acc.all_companies, company),
          seen          |-> acc.seen \cup {company.name}]
    ELSE acc

RECURSIVE MergeCompanies(_, _)
MergeCompanies(acc, list) ==
    IF list = <<>> THEN acc
    ELSE MergeCompanies(MergeCompany(acc, Head(list)), Tail(list))

\* One iteration of the loop over WATCHLISTS (lines 126-132); the driver is
\* sent to the list page only when the configured URL is non-empty.
CollectList(Pages) ==
    /\ pc = "collect"
    /\ wl <= Len(WATCHLISTS)
    /\ LET url == WATCHLISTS[wl].url
       IN  IF url # ""
           THEN \E page \in Pages :
                  LET merged == MergeCompanies(
                                    [all_companies |-> all_companies, seen |-> seen],
                                    ScrapeWatchlistCompanies(url, page))
                  IN  /\ all_companies' = merged.all_companies
                      /\ seen' = merged.seen
                      /\ fetched' = Append(fetched,
                                           [kind |-> "list", url |-> url, page |-> page])
           ELSE UNCHANGED <<all_companies, seen, fetched>>
    /\ wl' = wl + 1
    /\ UNCHANGED <<config, WATCHLISTS, pc, driver, quit_count, companies, i, data,
                   all_data, success_count, published, exit_status,
                   logged_in>>

\* return all_companies (line 135), assigned to main's `companies` (line 499).
CollectReturn ==
    /\ pc = "collect"
    /\ wl > Len(WATCHLISTS)
    /\ companies' = all_companies
    /\ pc' = "check_companies"
    /\ UNCHANGED <<config, WATCHLISTS, driver, quit_count, fetched, wl, all_companies,
                   seen, i, data, all_data, success_count, published, exit_status,
                   logged_in>>

---------------------------------------------------------------------------
(* scrape_company_data, lines 141-254 *)

\* The record as built at lines 149-160.
NewRecord(company) ==
    [name           |-> company.name,
     url            |-> company.url,
     current_price  |-> None,
     market_cap     |-> None,
     pe_ratio       |-> None,
     sector         |-> None,
     revenue_data   |-> <<>>,
     profit_data    |-> <<>>,
     margin_data    |-> <<>>,
     quarterly_data |-> <<>>]

\* The order of the reads inside the one try block of lines 163-181.
ScalarOrder == <<"current_price", "market_cap", "pe_ratio", "sector">>

\* Lines 163-181 from the k-th read on: a read that raises leaves the try
\* block, so the fields after it are not read.
RECURSIVE ScrapeScalars(_, _, _)
ScrapeScalars(rec, scalars, k) ==
    IF k > Len(ScalarOrder) THEN rec
    ELSE LET f == ScalarOrder[k]
         IN  IF scalars[f].raises THEN rec
             ELSE ScrapeScalars([rec EXCEPT ![f] = Some(Strip(scalars[f].text))],
                                scalars, k + 1)

\* Classify with the margin test moved to the front of the chain.
ClassifyMarginFirst(metric_name) ==
    IF Contains(Lower(metric_name), "margin")
    THEN "margin_data"
    ELSE IF Contains(metric_name, "Sales") \/ Contains(metric_name, "Revenue")
    THEN "revenue_data"
    ELSE IF Contains(metric_name, "Operating Profit") \/ Contains(metric_name, "EBITDA")
    THEN "profit_data"
    ELSE IF Contains(metric_name, "Net Profit")
    THEN "profit_data"
    ELSE ""

\* Lines 209-216: the series a metric name is stored in, "" for none.
Classify(metric_name) ==
    IF Contains(metric_name, "Sales") \/ Contains(metric_name, "Revenue")
    THEN "revenue_data"
    ELSE IF Contains(metric_name, "Operating Profit") \/ Contains(metric_name, "EBITDA")
    THEN "profit_data"
    ELSE IF Contains(metric_name, "Net Profit")
    THEN "profit_data"
    ELSE IF Contains(Lower(metric_name), "margin")
    THEN "margin_data"
    ELSE ""

\* Lines 196-219 for one row of a table.
ScrapeTableRow(rec, row) ==
    IF row.raises THEN rec
    ELSE IF Len(row.cells) < 2 THEN rec
    ELSE LET metric_name == Strip(row.cells[1])
             values      == [k \in 1..(Len(row.cells) - 1) |-> Strip(row.cells[k + 1])]
             series      == Classify(metric_name)
         IN  IF series = "" THEN rec
             ELSE [rec EXCEPT ![series] = DictSet(@, metric_name, values)]

RECURSIVE ScrapeTableRows(_, _)
ScrapeTableRows(rec, rows) ==
    IF rows = <<>> THEN rec
    ELSE ScrapeTableRows(ScrapeTableRow(rec, Head(rows)), Tail(rows))

\* Lines 189-222 for one table.  find_element("thead th") raises when the
\* table has no header cell; table.raises: reading the header text or finding
\* the body rows raised.  Either way the bare except skips the table.
ScrapeTable(rec, table) ==
    IF table.header = "absent" THEN rec
    ELSE IF table.raises THEN rec
    ELSE ScrapeTableRows(rec, table.rows)

RECURSIVE ScrapeTableSeq(_, _)
ScrapeTableSeq(rec, tables) ==
    IF tables = <<>> THEN rec
    ELSE ScrapeTableSeq(ScrapeTable(rec, Head(tables)), Tail(tables))

\* Lines 184-225.
ScrapeTables(rec, page) ==
    IF page.tables_raise THEN rec
    ELSE ScrapeTableSeq(rec, page.tables)

\* for q_row in q_rows[:8], line 233.
QuarterCap == 8

\* Lines 234-244 for one row of the quarterly table.
ScrapeQuarterRow(rec, q_row) ==
    IF q_row.raises THEN rec
    ELSE IF Len(q_row.cells) >= 3
    THEN [rec EXCEPT !.quarterly_data =
              Append(@, [period |-> Strip(q_row.cells[1]),
                         sales  |-> Strip(q_row.cells[2]),
                         profit |-> Strip(q_row.cells[3])])]
    ELSE rec

RECURSIVE ScrapeQuarterRows(_, _)
ScrapeQuarterRows(rec, q_rows) ==
    IF q_rows = <<>> THEN rec
    ELSE ScrapeQuarterRows(ScrapeQuarterRow(rec, Head(q_rows)), Tail(q_rows))

\* q_rows[-8:] in place of q_rows[:8].
LastRows(q_rows) ==
    SubSeq(q_rows, IF Len(q_rows) < QuarterCap THEN 1 ELSE Len(q_rows) - QuarterCap + 1,
           Len(q_rows))

\* q_rows[:8]
FirstRows(q_rows) ==
    SubSeq(q_rows, 1, IF Len(q_rows) < QuarterCap THEN Len(q_rows) ELSE QuarterCap)

\* Lines 228-247.
ScrapeQuarterly(rec, page) ==
    IF page.quarters_raise THEN rec
    ELSE ScrapeQuarterRows(rec, FirstRows(page.q_rows))

\* ScrapeCompanyData, but a missing quarterly section loses the record.
ScrapeCompanyDataQuarterlyFatal(company, page) ==
    IF ~page.nav \/ page.quarters_raise THEN None
    ELSE ScrapeQuarterly(
             ScrapeTables(ScrapeScalars(NewRecord(company), page.scalars, 1), page),
             page)

\* The whole function: None when driver.get raises (lines 252-254).
ScrapeCompanyData(company, page) ==
    IF ~page.nav THEN None
    ELSE ScrapeQuarterly(
             ScrapeTables(ScrapeScalars(NewRecord(company), page.scalars, 1), page),
             page)

---------------------------------------------------------------------------
(* scrape_all_companies, lines 256-275 *)

\* BatchIter, but the loop is left at the first company that gives no record.
BatchIterStopOnFailure(Pages) ==
    /\ pc = "scrape"
    /\ i <= Len(companies)
    /\ \E page \in Pages :
         LET d == ScrapeCompanyData(companies[i], page)
         IN  /\ data' = d
             /\ fetched' = Append(fetched, [kind |-> "detail",
                                            url  |-> companies[i].url,
                                            page |-> page])
             /\ IF Truthy(d)
                THEN /\ all_data' = Append(all_data, d)
                     /\ success_count' = success_count + 1
                     /\ i' = i + 1
                ELSE /\ UNCHANGED <<all_data, success_count>>
                     /\ i' = Len(companies) + 1
    /\ UNCHANGED <<config, WATCHLISTS, pc, driver, quit_count, wl, all_companies,
                   seen, companies, published, exit_status,
                   logged_in>>

\* One iteration of the loop (lines 263-272).
BatchIter(Pages) ==
    /\ pc = "scrape"
    /\ i <= Len(companies)
    /\ \E page \in Pages :
         LET d == ScrapeCompanyData(companies[i], page)
         IN  /\ data' = d
             /\ fetched' = Append(fetched, [kind |-> "detail",
                                            url  |-> companies[i].url,
                                            page |-> page])
             /\ IF Truthy(d)
                THEN /\ all_data' = Append(all_data, d)
                     /\ success_count' = success_count + 1
                ELSE UNCHANGED <<all_data, success_count>>
    /\ i' = i + 1
    /\ UNCHANGED <<config, WATCHLISTS, pc, driver, quit_count, wl, all_companies,
                   seen, companies, published, exit_status,
                   logged_in>>

\* return all_data (line 275).
BatchReturn ==
    /\ pc = "scrape"
    /\ i > Len(companies)
    /\ pc' = "check_data"
    /\ UNCHANGED <<config, WATCHLISTS, driver, quit_count, fetched, wl, all_companies,
                   seen, companies, i, data, all_data, success_count, published,
                   exit_status,
                   logged_in>>

---------------------------------------------------------------------------
(* main, lines 468-537 *)

\* Lines 476-486: `not v` holds of an unset variable and of an empty one;
\* sys.exit(1) here is outside the try block.
Missing == {k \in DOMAIN config : ~TruthyStr(config[k])}

MainValidate ==
    /\ pc = "main"
    /\ IF Missing # {}
       THEN pc' = "exited" /\ exit_status' = "1"
       ELSE pc' = "setup" /\ UNCHANGED exit_status
    /\ UNCHANGED <<config, WATCHLISTS, driver, quit_count, fetched, wl, all_companies,
                   seen, companies, i, data, all_data, success_count, published,
                   logged_in>>

\* Line 492: setup_selenium returns the driver or raises.
MainSetup ==
    /\ pc = "setup"
    /\ \E started \in BOOLEAN :
         IF started
         THEN driver' = "open" /\ pc' = "login"
         ELSE UNCHANGED driver /\ pc' = "except"
    /\ UNCHANGED <<config, WATCHLISTS, quit_count, fetched, wl, all_companies, seen,
                   companies, i, data, all_data, success_count, published, exit_status,
                   logged_in>>

\* login_to_screener, lines 59-78: False when the URL after the submit still
\* holds "login" and when anything raised.
LoginToScreener(outcome) == outcome = "accepted"

\* Lines 495-496.
MainLogin ==
    /\ pc = "login"
    /\ \E outcome \in {"accepted", "still_on_login", "raised"} :
         /\ logged_in' = LoginToScreener(outcome)
         /\ pc' = IF LoginToScreener(outcome) THEN "collect" ELSE "except"
    /\ wl' = 1
    /\ all_companies' = <<>>
    /\ seen' = {}
    /\ UNCHANGED <<config, WATCHLISTS, driver, quit_count, fetched, companies, i, data,
                   all_data, success_count, published, exit_status>>

\* MainCheckCompanies, but the exit on an empty list ends the process at once,
\* as an exit outside the try block would.
MainCheckCompaniesExitsAtOnce ==
    /\ pc = "check_companies"
    /\ IF companies = <<>>
       THEN /\ pc' = "exited"
            /\ exit_status' = "0"
            /\ UNCHANGED <<i, all_data, success_count>>
       ELSE /\ pc' = "scrape"
            /\ i' = 1
            /\ all_data' = <<>>
            /\ success_count' = 0
            /\ UNCHANGED exit_status
    /\ UNCHANGED <<config, WATCHLISTS, driver, quit_count, fetched, wl, all_companies,
                   seen, companies, data, published, logged_in>>

\* Lines 501-506: sys.exit(0) on an empty list (SystemExit passes the except
\* clause and reaches finally), else scrape_all_companies is entered.
MainCheckCompanies ==
    /\ pc = "check_companies"
    /\ IF companies = <<>>
       THEN /\ pc' = "finally"
            /\ exit_status' = "0"
            /\ UNCHANGED <<i, all_data, success_count>>
       ELSE /\ pc' = "scrape"
            /\ i' = 1
            /\ all_data' = <<>>
            /\ success_count' = 0
            /\ UNCHANGED exit_status
    /\ UNCHANGED <<config, WATCHLISTS, driver, quit_count, fetched, wl, all_companies,
                   seen, companies, data, published, logged_in>>

\* MainCheckData without the exit on an empty dataset.
MainCheckDataNoExit ==
    /\ pc = "check_data"
    /\ pc' = "sheets"
    /\ UNCHANGED <<config, WATCHLISTS, driver, quit_count, fetched, wl, all_companies,
                   seen, companies, i, data, all_data, success_count, published,
                   exit_status, logged_in>>

\* Lines 508-510.
MainCheckData ==
    /\ pc = "check_data"
    /\ IF all_data = <<>>
       THEN pc' = "finally" /\ exit_status' = "1"
       ELSE pc' = "sheets" /\ UNCHANGED exit_status
    /\ UNCHANGED <<config, WATCHLISTS, driver, quit_count, fetched, wl, all_companies,
                   seen, companies, i, data, all_data, success_count, published,
                   logged_in>>

\* Line 513: save_to_google_sheets catches its errors and returns True or False.
MainSaveSheets ==
    /\ pc = "sheets"
    /\ \E saved \in BOOLEAN :
         published' = Append(published, [publisher |-> "save_to_google_sheets",
                                         records   |-> Len(all_data),
                                         done      |-> saved])
    /\ pc' = "excel"
    /\ UNCHANGED <<config, WATCHLISTS, driver, quit_count, fetched, wl, all_companies,
                   seen, companies, i, data, all_data, success_count, exit_status,
                   logged_in>>

\* Lines 516-526: create_excel_dashboard catches its errors and returns the
\* file name or None; the summary follows and main completes.
MainCreateExcel ==
    /\ pc = "excel"
    /\ \E saved \in BOOLEAN :
         published' = Append(published, [publisher |-> "create_excel_dashboard",
                                         records   |-> Len(all_data),
                                         done      |-> saved])
    /\ pc' = "finally"
    /\ exit_status' = "0"
    /\ UNCHANGED <<config, WATCHLISTS, driver, quit_count, fetched, wl, all_companies,
                   seen, companies, i, data, all_data, success_count, logged_in>>

\* Lines 490-526: a statement of the try block raises an exception that no
\* callee catches (a print failing on the console's encoding, lines 143, 264,
\* 519-526), and control passes to the except clause of line 528.
MainRaise ==
    /\ pc \in {"login", "collect", "check_companies", "scrape", "check_data", "sheets",
               "excel"}
    /\ pc' = "except"
    /\ UNCHANGED <<config, WATCHLISTS, driver, quit_count, fetched, wl, all_companies,
                   seen, companies, i, data, all_data, success_count, published,
                   exit_status, logged_in>>

\* Lines 528-532.
MainExcept ==
    /\ pc = "except"
    /\ pc' = "finally"
    /\ exit_status' = "1"
    /\ UNCHANGED <<config, WATCHLISTS, driver, quit_count, fetched, wl, all_companies,
                   seen, companies, i, data, all_data, success_count, published,
                   logged_in>>

\* Lines 534-537.
MainFinally ==
    /\ pc = "finally"
    /\ IF driver # "None"
       THEN driver' = "closed" /\ quit_count' = quit_count + 1
       ELSE UNCHANGED <<driver, quit_count>>
    /\ pc' = "exited"
    /\ UNCHANGED <<config, WATCHLISTS, fetched, wl, all_companies, seen, companies, i,
                   data, all_data, success_count, published, exit_status, logged_in>>

---------------------------------------------------------------------------
(* Inputs of the watchlist collector *)

MaxListRows == 2

RECURSIVE SeqsUpTo(_, _)
SeqsUpTo(S, n) ==
    IF n = 0 THEN {<<>>}
    ELSE LET shorter == SeqsUpTo(S, n - 1)
         IN  shorter \cup {Append(q, x) : q \in {r \in shorter : Len(r) = n - 1}, x \in S}

ListRowKinds ==
    { [raises |-> FALSE, text |-> "Acme",     href |-> Some("/company/ACME/")],
      [raises |-> FALSE, text |-> "Acme",     href |-> Some("/company/ACME/consolidated/")],
      [raises |-> FALSE, text |-> " Globex ", href |-> Some("/company/GLOBEX/")],
      [raises |-> FALSE, text |-> "  ",       href |-> Some("/company/BLANK/")],
      [raises |-> FALSE, text |-> "Initech",  href |-> None],
      [raises |-> TRUE,  text |-> "",         href |-> None] }

\* A row of a list page whose loading fails; it is on no page that loads.
GhostRow == [raises |-> FALSE, text |-> "Hooli", href |-> Some("/company/HOOLI/")]

ListPages ==
    { [load |-> "ok", rows |-> rows] : rows \in SeqsUpTo(ListRowKinds, MaxListRows) }
    \cup { [load |-> l, rows |-> rows] :
              l \in {"nav_error", "timeout", "parse_error"},
              rows \in {<<>>, <<GhostRow>>} }

WatchlistConfigs ==
    { << [name |-> "My Stonks",      url |-> u1],
         [name |-> "Core Watchlist", url |-> u2] >> :
        u1 \in {"", "/watchlist/stonks/"}, u2 \in {"", "/watchlist/core/"} }

AllSet == [k \in {"SCREENER_USERNAME", "SCREENER_PASSWORD", "GOOGLE_SHEET_ID",
                  "GOOGLE_CREDENTIALS_BASE64"} |-> Some("set")]

\* The run is inside get_all_watchlist_companies, called from main line 499.
InitCollect ==
    /\ config = AllSet
    /\ WATCHLISTS \in WatchlistConfigs
    /\ pc = "collect"
    /\ driver = "open"
    /\ quit_count = 0
    /\ fetched = <<>>
    /\ wl = 1
    /\ all_companies = <<>>
    /\ seen = {}
    /\ companies = <<>>
    /\ i = 1
    /\ data = None
    /\ all_data = <<>>
    /\ success_count = 0
    /\ published = <<>>
    /\ exit_status = "running"
    /\ logged_in = TRUE

NextCollect == CollectList(ListPages) \/ CollectReturn

SpecCollect == InitCollect /\ [][NextCollect]_vars

---------------------------------------------------------------------------
(* Inputs of the record extractor *)

Scalar(text) == [raises |-> FALSE, text |-> text]
ScalarRaises == [raises |-> TRUE, text |-> ""]

HealthyScalars ==
    [current_price |-> Scalar("1,234"), market_cap |-> Scalar(" 56,789 "),
     pe_ratio |-> Scalar("21.5"), sector |-> Scalar("Chemicals")]

NoScalars == [f \in DOMAIN HealthyScalars |-> ScalarRaises]

\* Each field read either raises or gives its text.
ScalarChoices ==
    { [f \in DOMAIN HealthyScalars |-> IF f \in failing THEN ScalarRaises
                                       ELSE HealthyScalars[f]] :
        failing \in SUBSET DOMAIN HealthyScalars }

Row(cells) == [raises |-> FALSE, cells |-> cells]
RowRaises == [raises |-> TRUE, cells |-> <<>>]

\* Rows of the financial tables: a label twice with different values, a second
\* label of the same series, a one-cell row and a row whose reading raises.
TableRowKinds ==
    { Row(<<"Net Sales", "100", "120", "140">>),
      Row(<<"Net Sales", " 7 ">>),
      Row(<<"Revenue", "5">>),
      Row(<<"Revenue">>),
      RowRaises }

\* Labels for the classification rules, one row each.
Labels ==
    { "Sales", "Net Sales", " Net Sales ", "Revenue", "Sales margin",
      "Revenue Margin %", "EBITDA Sales", "Operating Profit", "EBITDA",
      "EBITDA margin", "Operating Profit Margin", "Net Profit", "Net Profit margin",
      "Net Profit Revenue", "OPM margin", "Gross Margin", "MARGIN", "sales",
      "net profit", "ebitda", "Profit", "Expenses", "Tax %", "" }

\* The document order of the card tables: a table start, then its rows.
TableItems ==
    { [table |-> TRUE, header |-> "present", raises |-> FALSE, row |-> RowRaises],
      [table |-> TRUE, header |-> "absent",  raises |-> FALSE, row |-> RowRaises],
      [table |-> TRUE, header |-> "present", raises |-> TRUE,  row |-> RowRaises] }
    \cup { [table |-> FALSE, header |-> "", raises |-> FALSE, row |-> r] :
             r \in TableRowKinds }

MaxItems == 4

RECURSIVE GroupTables(_, _)
GroupTables(tables, items) ==
    IF items = <<>> THEN tables
    ELSE LET it == Head(items)
         IN  IF it.table
             THEN GroupTables(Append(tables, [header |-> it.header,
                                              raises |-> it.raises, rows |-> <<>>]),
                              Tail(items))
             ELSE GroupTables(
                      [tables EXCEPT ![Len(tables)].rows = Append(@, it.row)],
                      Tail(items))

TableSeqs ==
    { GroupTables(<<>>, items) :
        items \in {s \in SeqsUpTo(TableItems, MaxItems) : s = <<>> \/ s[1].table} }
    \cup { << [header |-> h, raises |-> FALSE, rows |-> <<Row(<<l, "1">>)>>] >> :
             h \in {"present", "absent"}, l \in Labels }

HealthyTables ==
    << [header |-> "present", raises |-> FALSE,
        rows   |-> <<Row(<<"Sales", "10", "20">>), Row(<<"OPM margin", "9%">>)>>] >>

QA == Row(<<"Mar 2024", "1,000", "150">>)
QB == Row(<<" Jun 2024 ", "1,100", "160", "14%">>)
QShort == Row(<<"Sep 2024", "900">>)

MaxQRows == 12
MaxVariant == 1

\* Quarterly tables of up to MaxQRows rows, all QA but for at most MaxVariant
\* rows, which are any of QB, QShort and a row whose reading raises.
QuarterSeqs ==
    UNION { UNION { { [k \in 1..n |-> IF k \in P THEN v[k] ELSE QA] :
                        v \in [P -> {QB, QShort, RowRaises}] } :
                    P \in {Q \in SUBSET (1..n) : Cardinality(Q) <= MaxVariant} } :
            n \in 0..MaxQRows }

HealthyQuarters == <<QA, QB>>

DetailPage(nav, scalars, tables_raise, tables, quarters_raise, q_rows) ==
    [nav |-> nav, scalars |-> scalars, tables_raise |-> tables_raise,
     tables |-> tables, quarters_raise |-> quarters_raise, q_rows |-> q_rows]

HealthyPage == DetailPage(TRUE, HealthyScalars, FALSE, HealthyTables, FALSE,
                          HealthyQuarters)

\* Every sub-extraction fails, the navigation does not.
BarePage == DetailPage(TRUE, NoScalars, TRUE, HealthyTables, TRUE, HealthyQuarters)

\* Each family varies one part of the page in full, against the other parts
\* healthy or failing.
ScalarFamily ==
    { DetailPage(nav, sc, tr, HealthyTables, qr, HealthyQuarters) :
        nav \in BOOLEAN, sc \in ScalarChoices, tr \in BOOLEAN, qr \in BOOLEAN }

TableFamily ==
    { DetailPage(TRUE, sc, FALSE, t, FALSE, HealthyQuarters) :
        sc \in {HealthyScalars, NoScalars}, t \in TableSeqs }

QuarterFamily ==
    { DetailPage(TRUE, sc, tr, HealthyTables, FALSE, q) :
        sc \in {HealthyScalars, NoScalars}, tr \in BOOLEAN, q \in QuarterSeqs }

\* The run is inside scrape_all_companies, called from main line 506.
InitBatch(list) ==
    /\ config = AllSet
    /\ WATCHLISTS = << [name |-> "My Stonks",      url |-> "/watchlist/stonks/"],
                       [name |-> "Core Watchlist", url |-> "/watchlist/core/"] >>
    /\ pc = "scrape"
    /\ driver = "open"
    /\ quit_count = 0
    /\ fetched = <<>>
    /\ wl = Len(WATCHLISTS) + 1
    /\ all_companies = list
    /\ seen = {list[k].name : k \in 1..Len(list)}
    /\ companies = list
    /\ i = 1
    /\ data = None
    /\ all_data = <<>>
    /\ success_count = 0
    /\ published = <<>>
    /\ exit_status = "running"
    /\ logged_in = TRUE

CompanyRefs ==
    << [name |-> "Acme",    url |-> "/company/ACME/"],
       [name |-> "Globex",  url |-> "/company/GLOBEX/"],
       [name |-> "Initech", url |-> "/company/INITECH/"],
       [name |-> "Hooli",   url |-> "/company/HOOLI/"],
       [name |-> "Umbrella", url |-> "/company/UMBRELLA/"] >>

\* One company, any detail page.
InitRecord == InitBatch(SubSeq(CompanyRefs, 1, 1))

NextRecord ==
    \/ BatchIter(ScalarFamily)
    \/ BatchIter(TableFamily)
    \/ BatchIter(QuarterFamily)
    \/ BatchReturn

SpecRecord == InitRecord /\ [][NextRecord]_vars

MaxCompanies == 3

BatchPages ==
    { HealthyPage, BarePage,
      DetailPage(FALSE, HealthyScalars, FALSE, HealthyTables, FALSE, HealthyQuarters),
      DetailPage(TRUE, HealthyScalars, FALSE, <<>>, FALSE, <<>>) }

\* Up to MaxCompanies companies, a few pages each.
InitScrapeAll == \E n \in 0..MaxCompanies : InitBatch(SubSeq(CompanyRefs, 1, n))

NextScrapeAll == BatchIter(BatchPages) \/ BatchReturn

SpecScrapeAll == InitScrapeAll /\ [][NextScrapeAll]_vars

---------------------------------------------------------------------------
(* The whole run *)

\* Each required variable is unset, empty or set.
ConfigChoices == [DOMAIN AllSet -> {None, Some(""), Some("set")}]

MainListPages ==
    { [load |-> "ok", rows |-> <<>>],
      [load |-> "ok", rows |-> <<[raises |-> FALSE, text |-> "Acme",
                                  href |-> Some("/company/ACME/")]>>],
      [load |-> "ok", rows |-> <<[raises |-> FALSE, text |-> "Acme",
                                  href |-> Some("/company/ACME/")],
                                 [raises |-> FALSE, text |-> "Globex",
                                  href |-> Some("/company/GLOBEX/")]>>],
      [load |-> "timeout", rows |-> <<>>] }

Init ==
    /\ config \in ConfigChoices
    /\ WATCHLISTS \in WatchlistConfigs
    /\ pc = "main"
    /\ driver = "None"
    /\ quit_count = 0
    /\ fetched = <<>>
    /\ wl = 1
    /\ all_companies = <<>>
    /\ seen = {}
    /\ companies = <<>>
    /\ i = 1
    /\ data = None
    /\ all_data = <<>>
    /\ success_count = 0
    /\ published = <<>>
    /\ exit_status = "running"
    /\ logged_in = FALSE

Next ==
    \/ MainValidate
    \/ MainSetup
    \/ MainLogin
    \/ CollectList(MainListPages)
    \/ CollectReturn
    \/ MainCheckCompanies
    \/ BatchIter(BatchPages)
    \/ BatchReturn
    \/ MainCheckData
    \/ MainSaveSheets
    \/ MainCreateExcel
    \/ MainRaise
    \/ MainExcept
    \/ MainFinally

Spec == Init /\ [][Next]_vars

---------------------------------------------------------------------------
(* Claims about the watchlist collector *)

\* The companies of the first n fetched list pages, in (list order, row order).
RECURSIVE Listed(_)
Listed(n) ==
    IF n = 0 THEN <<>>
    ELSE IF fetched[n].kind = "list"
         THEN Listed(n - 1) \o ScrapeWatchlistCompanies(fetched[n].url, fetched[n].page)
         ELSE Listed(n - 1)

FirstPos(list, name) ==
    CHOOSE j \in 1..Len(list) :
        list[j].name = name /\ \A j2 \in 1..(j - 1) : list[j2].name # name

\* C1: the collector's output holds each distinct listed name exactly once, the
\* entry kept for a name (URL included) is its first occurrence in (list order,
\* row order), and the entries are ordered by those first occurrences.
C1_DedupFirstWins ==
    LET listed == Listed(Len(fetched))
        out    == all_companies
    IN  /\ \A a, b \in 1..Len(out) : a # b => out[a].name # out[b].name
        /\ {out[a].name : a \in 1..Len(out)} = {listed[j].name : j \in 1..Len(listed)}
        /\ \A a \in 1..Len(out) : out[a] = listed[FirstPos(listed, out[a].name)]
        /\ \A a, b \in 1..Len(out) :
              a < b => FirstPos(listed, out[a].name) < FirstPos(listed, out[b].name)

\* Both lists were read, a name of the first list comes again in the second with
\* another URL, and the collector returned two companies.
C1_Witness ==
    /\ pc = "check_companies"
    /\ Len(fetched) = 2
    /\ Len(companies) = 2
    /\ LET first  == ScrapeWatchlistCompanies(fetched[1].url, fetched[1].page)
           second == ScrapeWatchlistCompanies(fetched[2].url, fetched[2].page)
       IN  \E a \in 1..Len(first), b \in 1..Len(second) :
              first[a].name = second[b].name /\ first[a].url # second[b].url

ValidListRow(row) ==
    /\ ~row.raises
    /\ Strip(row.text) # ""
    /\ row.href # None
    /\ row.href[1] # ""

ConfiguredUrls(n) ==
    SelectSeq([k \in 1..n |-> WATCHLISTS[k].url], LAMBDA u : u # "")

\* C8: every configured non-empty watchlist is visited, in order, whatever
\* happened to the others; every row with a name and a link on a list page that
\* loaded is in the output; and nothing else is: a list that failed to load
\* and a row lacking a name or a link contribute nothing.
C8_ListFailureIsolated ==
    /\ [k \in 1..Len(fetched) |-> fetched[k].url] = ConfiguredUrls(wl - 1)
    /\ \A k \in 1..Len(fetched) :
          fetched[k].page.load = "ok" =>
             \A r \in 1..Len(fetched[k].page.rows) :
                ValidListRow(fetched[k].page.rows[r]) =>
                   \E a \in 1..Len(all_companies) :
                      all_companies[a].name = Strip(fetched[k].page.rows[r].text)
    /\ \A a \in 1..Len(all_companies) :
          \E k \in 1..Len(fetched) :
             /\ fetched[k].page.load = "ok"
             /\ \E r \in 1..Len(fetched[k].page.rows) :
                   /\ ValidListRow(fetched[k].page.rows[r])
                   /\ all_companies[a] = [name |-> Strip(fetched[k].page.rows[r].text),
                                          url  |-> fetched[k].page.rows[r].href[1]]

\* The first list failed to load although its page held a row, the second
\* loaded with a good row after a bad one, and the good row was returned.
C8_Witness ==
    /\ pc = "check_companies"
    /\ Len(fetched) = 2
    /\ fetched[1].page.load # "ok"
    /\ fetched[1].page.rows # <<>>
    /\ fetched[2].page.load = "ok"
    /\ Len(fetched[2].page.rows) = 2
    /\ ~ValidListRow(fetched[2].page.rows[1])
    /\ ValidListRow(fetched[2].page.rows[2])
    /\ Len(companies) = 1

---------------------------------------------------------------------------
(* Claims about the record extractor.  They speak of the latest detail page *)
(* the driver was sent to and of `data`, the record returned for it.        *)

HasScraped == Len(fetched) > 0 /\ fetched[Len(fetched)].kind = "detail"
LastPage == fetched[Len(fetched)].page
LastCompany == companies[i - 1]

ScalarFields == {"current_price", "market_cap", "pe_ratio", "sector"}

\* C2: a scalar field whose read raises, while the other three reads would
\* succeed, is absent in the record, and the other three are populated,
\* whichever of the four fields it is.
C2_ScalarsIndependent ==
    (HasScraped /\ LastPage.nav) =>
        \A F \in ScalarFields :
            ( /\ LastPage.scalars[F].raises
              /\ \A G \in ScalarFields \ {F} : ~LastPage.scalars[G].raises )
            => /\ data[F] = None
               /\ \A G \in ScalarFields \ {F} :
                     data[G] = Some(Strip(LastPage.scalars[G].text))

\* The classification rules of the specification, by number; 0 for no rule.
RuleOf(label) ==
    IF Contains(label, "Sales") \/ Contains(label, "Revenue") THEN 1
    ELSE IF Contains(label, "Operating Profit") \/ Contains(label, "EBITDA") THEN 2
    ELSE IF Contains(label, "Net Profit") THEN 3
    ELSE IF \E k \in 1..(Len(label) - 5) : Lower(SubSeq(label, k, k + 5)) = "margin"
    THEN 4
    ELSE 0

SeriesOfRule(r) ==
    CASE r = 1 -> "revenue_data" [] r = 2 -> "profit_data" [] r = 3 -> "profit_data"
      [] r = 4 -> "margin_data"

SeriesNames == {"revenue_data", "profit_data", "margin_data"}

Keys(d) == {d[k].key : k \in 1..Len(d)}

RECURSIVE Flatten(_)
Flatten(seqs) == IF seqs = <<>> THEN <<>> ELSE Head(seqs) \o Flatten(Tail(seqs))

\* The rows the extractor reads a label from, in page order: the readable rows
\* with at least two cells of the tables it enters.
RowsRead(page) ==
    IF page.tables_raise THEN <<>>
    ELSE Flatten([t \in 1..Len(page.tables) |->
            IF page.tables[t].header = "present" /\ ~page.tables[t].raises
            THEN SelectSeq(page.tables[t].rows,
                           LAMBDA row : ~row.raises /\ Len(row.cells) >= 2)
            ELSE <<>>])

LabelOf(row) == Strip(row.cells[1])
ValuesOf(row) == [k \in 1..(Len(row.cells) - 1) |-> Strip(row.cells[k + 1])]

\* C4: a row is stored under its label in the series of the lowest-numbered
\* rule the label matches and in no other series; a label matching no rule is
\* in no series; and the series hold nothing but such labels.
C4_FirstMatchWins ==
    (HasScraped /\ data # None) =>
        LET rows == RowsRead(LastPage)
        IN  /\ \A k \in 1..Len(rows) :
                 LET label == LabelOf(rows[k])
                     rule  == RuleOf(label)
                 IN  \A series \in SeriesNames :
                        label \in Keys(data[series])
                           <=> (rule # 0 /\ series = SeriesOfRule(rule))
            /\ \A series \in SeriesNames :
                 \A label \in Keys(data[series]) :
                    \E k \in 1..Len(rows) : LabelOf(rows[k]) = label

\* A label matching rule 1 ("Sales") and rule 4 ("margin") was read and filed
\* under the revenue series.
C4_Witness ==
    /\ HasScraped
    /\ data # None
    /\ \E label \in Keys(data.revenue_data) :
          Contains(label, "Sales") /\ Contains(Lower(label), "margin")
    /\ data.margin_data = <<>>

Min(a, b) == IF a < b THEN a ELSE b

QuarterOf(row) ==
    [period |-> Strip(row.cells[1]), sales |-> Strip(row.cells[2]),
     profit |-> Strip(row.cells[3])]

C6_RecordIffNavigation ==
    HasScraped =>
        /\ (data = None) <=> ~LastPage.nav
        /\ LastPage.nav =>
              /\ data.name = LastCompany.name
              /\ data.url = LastCompany.url
              /\ ( /\ \A F \in ScalarFields : LastPage.scalars[F].raises
                   /\ LastPage.tables_raise
                   /\ LastPage.quarters_raise )
                 => /\ \A F \in ScalarFields : data[F] = None
                    /\ \A series \in SeriesNames : data[series] = <<>>
                    /\ data.quarterly_data = <<>>

\* Every scalar read, the table search and the quarterly section raised, and a
\* record was returned all the same.
C6_Witness ==
    /\ HasScraped
    /\ LastPage.nav
    /\ \A F \in ScalarFields : LastPage.scalars[F].raises
    /\ LastPage.tables_raise
    /\ LastPage.quarters_raise
    /\ data # None
    /\ data.name = "Acme"

\* The rows read whose label is filed under `series`, in page order.
ClassifiedRows(page, series) ==
    SelectSeq(RowsRead(page),
              LAMBDA row : /\ RuleOf(LabelOf(row)) # 0
                           /\ SeriesOfRule(RuleOf(LabelOf(row))) = series)

EntryOf(row) == [key |-> LabelOf(row), value |-> ValuesOf(row)]

FirstRow(rows, label) ==
    CHOOSE j \in 1..Len(rows) :
        LabelOf(rows[j]) = label /\ \A j2 \in 1..(j - 1) : LabelOf(rows[j2]) # label

LastRow(rows, label) ==
    CHOOSE j \in 1..Len(rows) :
        LabelOf(rows[j]) = label /\ \A j2 \in (j + 1)..Len(rows) : LabelOf(rows[j2]) # label

\* C9 as claimed: every classified row is an entry of its series -- label,
\* then the texts of the remaining cells -- and the entries are in page order
\* of the rows, also when two rows of a series carry the same label.
C9_EveryRowAnEntry ==
    (HasScraped /\ data # None) =>
        \A series \in SeriesNames :
            LET rows == ClassifiedRows(LastPage, series)
            IN  data[series] = [k \in 1..Len(rows) |-> EntryOf(rows[k])]

\* C9 as amended: a series holds one entry per distinct label of its classified
\* rows; the entry's value is the cell texts of the last row carrying the label,
\* and the entries are in page order of the first row carrying each label.
\* With no label repeated, that is one entry per row, in page order.
C9_OneEntryPerLabel ==
    (HasScraped /\ data # None) =>
        \A series \in SeriesNames :
            LET rows == ClassifiedRows(LastPage, series)
                d    == data[series]
            IN  /\ \A a, b \in 1..Len(d) : a # b => d[a].key # d[b].key
                /\ Keys(d) = {LabelOf(rows[k]) : k \in 1..Len(rows)}
                /\ \A a \in 1..Len(d) : d[a].value = ValuesOf(rows[LastRow(rows, d[a].key)])
                /\ \A a, b \in 1..Len(d) :
                      a < b => FirstRow(rows, d[a].key) < FirstRow(rows, d[b].key)
                /\ (\A j, k \in 1..Len(rows) : j # k => LabelOf(rows[j]) # LabelOf(rows[k]))
                      => d = [k \in 1..Len(rows) |-> EntryOf(rows[k])]

\* Three revenue rows were read, the first and the last with the same label and
\* different values, and the series holds two entries.
C9_Witness ==
    /\ HasScraped
    /\ data # None
    /\ LET rows == ClassifiedRows(LastPage, "revenue_data")
       IN  /\ Len(rows) = 3
           /\ LabelOf(rows[1]) = LabelOf(rows[3])
           /\ LabelOf(rows[1]) # LabelOf(rows[2])
           /\ ValuesOf(rows[1]) # ValuesOf(rows[3])
    /\ Len(data.revenue_data) = 2

\* C10: in every card table that can be read, with a header cell or without,
\* each readable row with at least 2 cells and a label matching a rule has its
\* label in the rule's series; rows with fewer than 2 cells and rows and
\* tables whose reading raises give no entry and stop nothing else.
C10_EveryTableRead ==
    (HasScraped /\ data # None /\ ~LastPage.tables_raise) =>
        /\ \A t \in 1..Len(LastPage.tables) :
              ~LastPage.tables[t].raises =>
                 \A r \in 1..Len(LastPage.tables[t].rows) :
                    LET row == LastPage.tables[t].rows[r]
                    IN  ( /\ ~row.raises
                          /\ Len(row.cells) >= 2
                          /\ RuleOf(LabelOf(row)) # 0 )
                        => LabelOf(row) \in Keys(data[SeriesOfRule(RuleOf(LabelOf(row)))])
        /\ \A series \in SeriesNames :
              \A label \in Keys(data[series]) :
                 \E t \in 1..Len(LastPage.tables) :
                    /\ ~LastPage.tables[t].raises
                    /\ \E r \in 1..Len(LastPage.tables[t].rows) :
                          LET row == LastPage.tables[t].rows[r]
                          IN  /\ ~row.raises
                              /\ Len(row.cells) >= 2
                              /\ LabelOf(row) = label

---------------------------------------------------------------------------
(* Claims about the batch loop *)

\* The pages of the companies attempted so far.
Attempted == i - 1

Succeeded == SelectSeq([k \in 1..Len(fetched) |-> k], LAMBDA k : fetched[k].page.nav)

\* C3: the companies are attempted one by one in input order, each once; the
\* dataset holds one record per attempted company whose extraction did not
\* fail, in input order; and at the end every company has been attempted, so
\* the dataset's length is N minus the number of failures.
C3_BatchResilience ==
    /\ Len(fetched) = Attempted
    /\ \A k \in 1..Len(fetched) : fetched[k].url = companies[k].url
    /\ Len(all_data) = Len(Succeeded)
    /\ \A k \in 1..Len(all_data) :
          /\ all_data[k].name = companies[Succeeded[k]].name
          /\ all_data[k].url = companies[Succeeded[k]].url
    /\ success_count = Len(all_data)
    /\ pc = "check_data" => Attempted = Len(companies)

\* Three companies, the second failed, and the batch returned the records of
\* the first and the third.
C3_Witness ==
    /\ pc = "check_data"
    /\ Len(companies) = 3
    /\ fetched[1].page.nav
    /\ ~fetched[2].page.nav
    /\ fetched[3].page.nav
    /\ Len(all_data) = 2
    /\ all_data[2].name = companies[3].name

---------------------------------------------------------------------------
(* Claims about main *)

NoWatchlistUrl == \A k \in 1..Len(WATCHLISTS) : WATCHLISTS[k].url = ""

ExtractionStarted ==
    pc = "scrape" \/ \E k \in 1..Len(fetched) : fetched[k].kind = "detail"

\* C7: a publisher has run only if no required variable was missing, the login
\* succeeded, the company list is non-empty and the dataset is non-empty, the
\* dataset being complete by then; and extraction has started only if the
\* company list is non-empty, which it never is with no watchlist URL set.
C7_PublishersGuarded ==
    /\ published # <<>> =>
          /\ Missing = {}
          /\ logged_in
          /\ companies # <<>>
          /\ all_data # <<>>
          /\ i = Len(companies) + 1
          /\ pc \in {"excel", "except", "finally", "exited"}
    /\ ExtractionStarted => companies # <<>> /\ ~NoWatchlistUrl
    /\ (pc = "exited" /\ (Missing # {} \/ ~logged_in \/ companies = <<>> \/ all_data = <<>>))
          => published = <<>>

\* Companies were found, every extraction failed, and the run ended with
\* status 1 and no publisher called.
C7_Witness ==
    /\ pc = "exited"
    /\ Len(companies) = 2
    /\ Len(fetched) > 2
    /\ all_data = <<>>
    /\ exit_status = "1"
    /\ published = <<>>

SessionOpened == driver # "None"

\* C11: driver.quit is never called twice and never before the session is
\* opened; the session is still open only while the run is; when the process
\* has ended, a session that was opened has been closed by exactly one
\* driver.quit, whatever the exit status; with a required variable missing
\* no session is ever opened; and the process ends with status "0" only after
\* a login, with either an empty company list or both publishers called.
C11_SessionClosedOnce ==
    /\ quit_count <= 1
    /\ driver = "None" => quit_count = 0
    /\ driver = "open" => quit_count = 0 /\ pc # "exited"
    /\ driver = "closed" => quit_count = 1 /\ pc = "exited"
    /\ pc = "exited" => exit_status \in {"0", "1"}
    /\ Missing # {} => ~SessionOpened
    /\ (pc = "exited" /\ exit_status = "0") =>
          /\ driver = "closed"
          /\ logged_in
          /\ companies = <<>> \/ Len(published) = 2

\* The login succeeded, no company was found, and the process ended with
\* status 0 and the session closed by one driver.quit.
C11_Witness ==
    /\ pc = "exited"
    /\ logged_in
    /\ companies = <<>>
    /\ wl > Len(WATCHLISTS)
    /\ exit_status = "0"
    /\ driver = "closed"
    /\ quit_count = 1

====
